---- MODULE Spec2Model ----
(***************************************************************************)
(* Model of annotate.py (jcushman/epub_annotate): the text-anchored merge  *)
(* of process_chapter, its tree steps and file write, the cached()         *)
(* memoization wrapper over the shared shelve store, and the run_threaded  *)
(* dispatcher used by process_chapter and process_epub.                    *)
(*                                                                         *)
(* Six specifications share the variables below:                           *)
(*   SpecMerge    - lines 265-293, the raw-text merge of one chapter       *)
(*   SpecChapter  - lines 263-316, requests, merge, tree steps and write   *)
(*   SpecRender   - lines 297-316, the tree steps for every section shape  *)
(*   SpecDispatch - lines 189-191 and 319-395, run_threaded / process_epub *)
(*   SpecCache    - lines 33-58 and 256-300, cached calls of the workers   *)
(*   SpecWrapper  - lines 47-58, the wrapper called with any arguments     *)
(* Each specification keeps the other groups at their idle value.          *)
(***************************************************************************)
EXTENDS Integers, Sequences, FiniteSets, TLC

VARIABLES
    \* ---- merge of process_chapter (lines 265-293) ----
    orig_xml,        \* section_xml as read at line 204, before any merge step
    section_xml,     \* the markup string mutated by str.replace
    section_append,  \* the pending-append list (line 265)
    footnote_number, \* line 271
    i,               \* enumerate index of the annotation loop (line 272)
    j,               \* number of addition candidates the loop of line 284 consumed
    branch,          \* the branch the last loop iteration took
    section,         \* content of the section element after lines 291-293
    mpc              \* position inside the merge

VARIABLES
    \* ---- run_threaded over the chapters, process_epub (lines 189-191, 319-395) ----
    chapters,        \* the jobs of line 329: what process_chapter does on each
    fut,             \* state of the future of each submitted job
    results,         \* the list that list(executor.map(...)) has collected so far
    exc,             \* index of the job whose exception the iterator re-raised, or 0
    finish_order,    \* the jobs in the order in which their function returned or raised
    dispatched,      \* chapters that reached the remote requests of line 263
    written,         \* chapters whose file was rewritten at line 316
    chapter_results, \* line 333
    manifest,        \* the items appended to the manifest at line 393
    dpc              \* position of process_epub

VARIABLES
    \* ---- cached calls of one chapter's pipeline (lines 33-58, 256-317) ----
    cache_db,          \* the shelve store of line 33: key -> value, "None" when absent
    th,                \* the request workers of line 263, each inside the wrapper of lines 49-57
    run,               \* which run of process_chapter on the chapter this is
    cpc,               \* position of process_chapter
    remote_calls,      \* requests sent to the text and image backends in this run
    illustration_data, \* line 299
    outputs            \* what each run wrote at line 316

VARIABLES
    \* ---- the tree steps of process_chapter and its file (lines 195-204, 297-317) ----
    paragraphs,      \* number of p elements section('p') finds in the source section
    header,          \* whether the section has a header element
    elements,        \* the section's content once the tree steps have changed it
    chapter_file,    \* the chapter file on disk
    file_writes      \* how often write_xml (line 316) has run in this invocation

VARIABLES
    \* ---- calls of a function decorated with cached (lines 47-58) ----
    calls,           \* number of calls made so far
    last             \* what the latest call of the wrapper did

mergeVars == <<orig_xml, section_xml, section_append, footnote_number, i, j,
               branch, section, mpc>>

dispVars == <<chapters, fut, results, exc, finish_order, dispatched, written,
              chapter_results, manifest, dpc>>

cacheVars == <<cache_db, th, run, cpc, remote_calls, illustration_data, outputs>>

renderVars == <<paragraphs, header, elements, chapter_file, file_writes>>

wrapVars == <<calls, last>>

vars == <<mergeVars, dispVars, cacheVars, renderVars, wrapVars>>

----------------------------------------------------------------------------
\* Strings are sequences of tokens; a token is one character of chapter text
\* or one lexical piece of inserted markup.

\* characters a chapter's text and a generated anchor are made of
Chars == {"a", "b", "."}

\* longest chapter markup drawn
MaxXml == 2
\* longest generated anchor text drawn
MaxAnchor == 2
\* longest anchor sentence of an addition candidate drawn
MaxSentence == 1
\* longest annotation list drawn
MaxAnnotations == 2
\* longest list of addition candidates drawn (the prompt of line 260 asks for
\* 'n': 5 samples)
MaxAdditions == 3

SeqsUpTo(S, n) == UNION {[1..k -> S] : k \in 0..n}

\* decimal rendering of a small number inside an f-string
Str(n) ==
    CASE n = 0 -> "0" [] n = 1 -> "1" [] n = 2 -> "2" [] n = 3 -> "3"
      [] n = 4 -> "4" [] n = 5 -> "5" [] n = 6 -> "6" [] n = 7 -> "7"
      [] n = 8 -> "8" [] OTHER -> "9"

\* t occurs in s starting at position k (1-based)
OccursAt(s, t, k) == SubSeq(s, k, k + Len(t) - 1) = t

\* Python: t in s
Contains(s, t) == \E k \in 1..(Len(s) - Len(t) + 1) : OccursAt(s, t, k)

\* Python: s.find(t) + 1, for t in s
Find(s, t) == CHOOSE k \in 1..(Len(s) - Len(t) + 1) :
    /\ OccursAt(s, t, k)
    /\ \A m \in 1..(k - 1) : ~OccursAt(s, t, m)

\* the replacement applied to the last occurrence instead of the first
ReplaceLast(s, old, new) ==
    IF Contains(s, old)
    THEN LET k == CHOOSE k \in 1..(Len(s) - Len(old) + 1) :
                    /\ OccursAt(s, old, k)
                    /\ \A m \in (k + 1)..(Len(s) - Len(old) + 1) : ~OccursAt(s, old, m)
         IN SubSeq(s, 1, k - 1) \o new \o SubSeq(s, k + Len(old), Len(s))
    ELSE s

\* Python: s.replace(old, new, 1)
ReplaceFirst(s, old, new) ==
    IF Contains(s, old)
    THEN LET k == Find(s, old)
         IN SubSeq(s, 1, k - 1) \o new \o SubSeq(s, k + Len(old), Len(s))
    ELSE s

\* Python: s.rstrip('.')
RECURSIVE RStrip(_)
RStrip(s) ==
    IF Len(s) > 0 /\ s[Len(s)] = "." THEN RStrip(SubSeq(s, 1, Len(s) - 1)) ELSE s

\* f'<a class="noteref {reader}" epub:type="noteref" href="#{id}"><sup>{n}</sup></a>'
\* with id = f'{stem}-note{i}'; the file stem is made of ordinary letters,
\* here the letter a
NoteRef(idx, n) == <<"<a", "#", "a", Str(idx), "^", Str(n), ">">>

\* f'{whitespace}<aside class="footnote" ... id="{id}"><strong>{reader}:</strong> {note}</aside>'
FootnoteAside(idx, note) ==
    <<"ws", "<aside", "#", "a", Str(idx), "Publisher", note, "</aside>">>

\* f'{whitespace}<div class="ai-addition annotation-box">The Publisher regretted ...: {new}</div>'
AdditionAside(new) == <<"ws", "<div-addition", new, "</div>">>

AnchorTexts == SeqsUpTo(Chars, MaxAnchor)
Sentences == SeqsUpTo(Chars, MaxSentence)
Notes == {"note"}
NewSentences == {"x"}

\* a dict with no key
EmptyDict == [k \in {} |-> "None"]

\* what partial_json_loads can hand over for one Annotation (lines 111-113):
\* any subset of the two fields may be present
Annotations ==
    [text : AnchorTexts, annotation : Notes] \cup [text : AnchorTexts]
        \cup [annotation : Notes] \cup {EmptyDict}

\* one Addition candidate (lines 116-118), fields possibly missing
Additions ==
    [existing_sentence : Sentences, new_sentence : NewSentences]
        \cup [existing_sentence : Sentences] \cup [new_sentence : NewSentences]
        \cup {EmptyDict}

Has(d, key) == key \in DOMAIN d

\* the pending strings put into the section last one first
RECURSIVE FlattenReversed(_)
FlattenReversed(ss) ==
    IF ss = <<>> THEN <<>> ELSE FlattenReversed(Tail(ss)) \o Head(ss)

\* lines 292-293: the pending strings are appended one after the other
RECURSIVE Flatten(_)
Flatten(ss) == IF ss = <<>> THEN <<>> ELSE Head(ss) \o Flatten(Tail(ss))

----------------------------------------------------------------------------
\* The merge of process_chapter, lines 265-293.  The list elements are the
\* inputs of the loop iterations: annotation and addition are the parameters
\* of the two step actions.

\* no chapter pipeline is running
CacheIdle ==
    /\ cache_db = <<>>
    /\ th = <<>>
    /\ run = "none"
    /\ cpc = "idle"
    /\ remote_calls = 0
    /\ illustration_data = "None"
    /\ outputs = <<>>

\* the chapter on disk: the source file, as read at line 198
SourceFile == <<[kind |-> "source", body |-> <<>>]>>

\* the tree steps are not running
RenderIdle ==
    /\ paragraphs = 0
    /\ header = FALSE
    /\ elements = <<>>
    /\ chapter_file = SourceFile
    /\ file_writes = 0

\* no call of a decorated function is under way
NoCall == [given |-> FALSE, key |-> "None", outcome |-> "none", value |-> "None",
           reads |-> 0, writes |-> 0, invoked |-> FALSE, passed |-> {}]

WrapIdle ==
    /\ calls = 0
    /\ last = NoCall

\* the merge is not running
MergeIdle ==
    /\ orig_xml = <<>>
    /\ section_xml = <<>>
    /\ section_append = <<>>
    /\ footnote_number = 1
    /\ i = -1
    /\ j = 0
    /\ branch = "none"
    /\ section = <<>>
    /\ mpc = "idle"

\* the dispatcher is not running
DispIdle ==
    /\ chapters = <<>>
    /\ fut = <<>>
    /\ results = <<>>
    /\ exc = 0
    /\ finish_order = <<>>
    /\ dispatched = {}
    /\ written = {}
    /\ chapter_results = <<>>
    /\ manifest = <<>>
    /\ dpc = "idle"

MergeStart ==
    /\ orig_xml \in SeqsUpTo(Chars, MaxXml) \ {<<>>}
    /\ section_xml = orig_xml
    /\ section_append = <<>>
    /\ footnote_number = 1
    /\ i = -1
    /\ j = 0
    /\ branch = "none"
    /\ section = <<>>
    /\ mpc = "annotations"

MergeInit == MergeStart /\ DispIdle /\ CacheIdle /\ RenderIdle /\ WrapIdle

\* line 273: `not 'text' in annotation and 'annotation' in annotation`
SkipsMalformed(annotation) == ~Has(annotation, "text") /\ Has(annotation, "annotation")

\* line 275
AnchorOf(annotation) == RStrip(annotation.text)

\* the test of line 276 left out: every anchor counts as found
AnchorInAlways(xml, text) == TRUE

\* line 276: `text in section_xml`
AnchorIn(xml, text) == Contains(xml, text)

\* numbering by enumerate index, as the id of line 278 is
NoteNumberByIndex(n, idx) == idx + 1

\* the number line 279 renders inside <sup>: the counter, not the list index
NoteNumber(n, idx) == n

\* one iteration of the loop of lines 272-281 on the list element annotation
AnnotationStep(annotation) ==
    /\ mpc = "annotations"
    /\ UNCHANGED <<dispVars, cacheVars, renderVars, wrapVars>>
    /\ i + 1 < MaxAnnotations
    /\ i' = i + 1
    /\ UNCHANGED <<orig_xml, j, section>>
    /\ IF SkipsMalformed(annotation)
       THEN /\ branch' = "continue"
            /\ UNCHANGED <<section_xml, section_append, footnote_number, mpc>>
       ELSE IF ~Has(annotation, "text")
       THEN \* annotation["text"] raises KeyError at line 275
            /\ branch' = "keyerror"
            /\ mpc' = "raised"
            /\ UNCHANGED <<section_xml, section_append, footnote_number>>
       ELSE LET text == AnchorOf(annotation)
            IN IF AnchorIn(section_xml, text)
               THEN /\ section_xml' = ReplaceFirst(section_xml, text,
                                                   text \o NoteRef(i', NoteNumber(footnote_number, i')))
                    /\ footnote_number' = footnote_number + 1
                    /\ IF Has(annotation, "annotation")
                       THEN /\ section_append' = Append(section_append,
                                       FootnoteAside(i', annotation.annotation))
                            /\ branch' = "found"
                            /\ UNCHANGED mpc
                       ELSE \* annotation["annotation"] raises KeyError at line 281
                            /\ branch' = "keyerror"
                            /\ mpc' = "raised"
                            /\ UNCHANGED section_append
               ELSE /\ branch' = "notfound"
                    /\ UNCHANGED <<section_xml, section_append, footnote_number, mpc>>

\* the annotation list is exhausted (or empty: line 270)
AnnotationsEnd ==
    /\ mpc = "annotations"
    /\ UNCHANGED <<dispVars, cacheVars, renderVars, wrapVars>>
    /\ mpc' = "additions"
    /\ branch' = "none"
    /\ UNCHANGED <<orig_xml, section_xml, section_append, footnote_number, i, j, section>>

\* the break of line 288 left out
AfterAppliedNoBreak == "additions"

\* where the loop of line 284 goes after a candidate was applied: break, line 288
AfterApplied == "commit"

\* one iteration of the loop of lines 284-288 on the candidate addition
AdditionStep(addition) ==
    /\ mpc = "additions"
    /\ UNCHANGED <<dispVars, cacheVars, renderVars, wrapVars>>
    /\ j < MaxAdditions
    /\ j' = j + 1
    /\ UNCHANGED <<orig_xml, footnote_number, i, section>>
    /\ IF ~Has(addition, "existing_sentence")
       THEN \* KeyError at line 285
            /\ branch' = "keyerror"
            /\ mpc' = "raised"
            /\ UNCHANGED <<section_xml, section_append>>
       ELSE IF AnchorIn(section_xml, addition.existing_sentence)
       THEN IF Has(addition, "new_sentence")
            THEN /\ section_xml' = ReplaceFirst(section_xml, addition.existing_sentence,
                            addition.existing_sentence \o <<" ", addition.new_sentence>>)
                 /\ section_append' =
                        Append(section_append, AdditionAside(addition.new_sentence))
                 /\ branch' = "found"
                 /\ mpc' = AfterApplied
            ELSE \* KeyError while line 286 builds the replacement
                 /\ branch' = "keyerror"
                 /\ mpc' = "raised"
                 /\ UNCHANGED <<section_xml, section_append>>
       ELSE /\ branch' = "notfound"
            /\ UNCHANGED <<section_xml, section_append, mpc>>

\* the candidate list is exhausted without a break
AdditionsEnd ==
    /\ mpc = "additions"
    /\ UNCHANGED <<dispVars, cacheVars, renderVars, wrapVars>>
    /\ mpc' = "commit"
    /\ branch' = "none"
    /\ UNCHANGED <<orig_xml, section_xml, section_append, footnote_number, i, j, section>>

\* lines 291-293: section.html(section_xml), then every pending aside appended
Commit ==
    /\ mpc = "commit"
    /\ UNCHANGED <<dispVars, cacheVars, renderVars, wrapVars>>
    /\ section' = section_xml \o Flatten(section_append)
    /\ mpc' = "merged"
    /\ UNCHANGED <<orig_xml, section_xml, section_append, footnote_number, i, j, branch>>

MergeNext ==
    \/ \E a \in Annotations : AnnotationStep(a)
    \/ AnnotationsEnd
    \/ \E c \in Additions : AdditionStep(c)
    \/ AdditionsEnd
    \/ Commit

SpecMerge == MergeInit /\ [][MergeNext]_vars

----------------------------------------------------------------------------
\* run_threaded (lines 189-191) as process_epub uses it at line 333: one job
\* per chapter, func = process_chapter.  ThreadPoolExecutor.map submits every
\* job, then yields the futures' results in submission order; an exception
\* leaving the iterator cancels the futures not yet started, and the with
\* block waits for the running ones before the exception reaches the caller.

\* longest chapter list drawn
MaxChapters == 3
\* width of the worker pool, the max_workers parameter of line 189 (default
\* 10), scaled down so that jobs queue behind busy workers
MaxWorkers == 2

\* what process_chapter does on a chapter file: annotate it and return the
\* manifest fragment ("ok"), return None at line 202 because the file has no
\* section ("nosection"), or raise because a remote request failed ("fail")
ChapterKinds == {"ok", "nosection", "fail"}

\* Python's None as a job result
NoneOut == <<>>

\* the value process_chapter returns for job k (lines 202, 303, 317)
ProcessChapter(k) == IF chapters[k] = "ok" THEN <<"manifest", k>> ELSE NoneOut

Jobs == 1..Len(chapters)
Running == {k \in Jobs : fut[k] = "running"}

DispStart ==
    /\ chapters \in SeqsUpTo(ChapterKinds, MaxChapters)
    /\ fut = [k \in 1..Len(chapters) |-> "pending"]
    /\ results = <<>>
    /\ exc = 0
    /\ finish_order = <<>>
    /\ dispatched = {}
    /\ written = {}
    /\ chapter_results = <<>>
    /\ manifest = <<>>
    /\ dpc = "iterating"

DispInit == DispStart /\ MergeIdle /\ CacheIdle /\ RenderIdle /\ WrapIdle

\* a free worker takes the oldest queued job and calls func(**job)
WorkerStart(k) ==
    /\ dpc \in {"iterating", "shutdown"}
    /\ UNCHANGED <<mergeVars, cacheVars, renderVars, wrapVars>>
    /\ fut[k] = "pending"
    /\ \A m \in 1..(k - 1) : fut[m] # "pending"
    /\ Cardinality(Running) < MaxWorkers
    /\ fut' = [fut EXCEPT ![k] = "running"]
    /\ UNCHANGED <<chapters, results, exc, finish_order, dispatched, written,
                   chapter_results, manifest, dpc>>

\* process_chapter returns or raises in its worker
WorkerFinish(k) ==
    /\ dpc \in {"iterating", "shutdown"}
    /\ UNCHANGED <<mergeVars, cacheVars, renderVars, wrapVars>>
    /\ fut[k] = "running"
    /\ finish_order' = Append(finish_order, k)
    /\ fut' = [fut EXCEPT ![k] = IF chapters[k] = "fail" THEN "failed" ELSE "done"]
    /\ dispatched' = IF chapters[k] = "nosection" THEN dispatched ELSE dispatched \cup {k}
    /\ written' = IF chapters[k] = "ok" THEN written \cup {k} ELSE written
    /\ UNCHANGED <<chapters, results, exc, chapter_results, manifest, dpc>>

\* the futures taken from the end of the submission list
AwaitedReversed == Len(chapters) - Len(results)

\* the future the result iterator waits for next: submission order
\* (fs.reverse(); fs.pop())
Awaited == Len(results) + 1

\* list(...) takes the next result from the iterator of executor.map
IterNext ==
    /\ dpc = "iterating"
    /\ UNCHANGED <<mergeVars, cacheVars, renderVars, wrapVars>>
    /\ UNCHANGED <<chapters, finish_order, dispatched, written, chapter_results, manifest>>
    /\ IF Len(results) = Len(chapters)
       THEN \* the iterator is exhausted; the with block is left
            /\ dpc' = "shutdown"
            /\ UNCHANGED <<fut, results, exc>>
       ELSE LET r == Awaited
            IN /\ fut[r] \in {"done", "failed"}
               /\ IF fut[r] = "done"
                  THEN /\ results' = Append(results, ProcessChapter(r))
                       /\ UNCHANGED <<fut, exc, dpc>>
                  ELSE \* future.result() re-raises; the iterator's finally
                       \* clause cancels every future that has not started
                       /\ exc' = r
                       /\ fut' = [k \in Jobs |->
                                    IF fut[k] = "pending" THEN "cancelled" ELSE fut[k]]
                       /\ dpc' = "shutdown"
                       /\ UNCHANGED results

\* ThreadPoolExecutor.__exit__: shutdown(wait=True) has joined the workers;
\* run_threaded returns the list or lets the exception out, and process_epub,
\* which has no handler, lets it out too
ShutdownDone ==
    /\ dpc = "shutdown"
    /\ UNCHANGED <<mergeVars, cacheVars, renderVars, wrapVars>>
    /\ Running = {}
    /\ \A k \in Jobs : fut[k] # "pending"
    /\ IF exc = 0
       THEN chapter_results' = results /\ dpc' = "returned"
       ELSE UNCHANGED chapter_results /\ dpc' = "raised"
    /\ UNCHANGED <<chapters, fut, results, exc, finish_order, dispatched, written, manifest>>

\* lines 334-395 of process_epub: chapter['manifest'] of every result is
\* appended to the manifest, which is written at line 395; subscripting a
\* None result raises TypeError before anything is written
Finalize ==
    /\ dpc = "returned"
    /\ UNCHANGED <<mergeVars, cacheVars, renderVars, wrapVars>>
    /\ IF \E k \in 1..Len(chapter_results) : chapter_results[k] = NoneOut
       THEN dpc' = "raised" /\ UNCHANGED manifest
       ELSE /\ manifest' = [k \in 1..Len(chapter_results) |-> chapter_results[k][2]]
            /\ dpc' = "done"
    /\ UNCHANGED <<chapters, fut, results, exc, finish_order, dispatched, written,
                   chapter_results>>

DispNext ==
    \/ \E k \in Jobs : WorkerStart(k)
    \/ \E k \in Jobs : WorkerFinish(k)
    \/ IterNext
    \/ ShutdownDone
    \/ Finalize

SpecDispatch == DispInit /\ [][DispNext]_vars

----------------------------------------------------------------------------
\* The cached wrapper (lines 47-58) over the shelve store (lines 33-39), as
\* one chapter's pipeline uses it: the request workers of line 263 call
\* get_completion_text(cache_key=...) concurrently (the five jobs all start at
\* once, max_workers being 10), then the chapter's own thread calls get_image
\* and compress_image (lines 299-300).  process_chapter runs twice on the same
\* unmodified chapter, the store keeping what the first run left in it.

\* how many of the four requests before the illustration request are modelled
MaxTextRequests == 1

TextKinds == <<"precis", "commentary", "annotations", "additions">>

\* the cache keys of lines 257-261, in job order; the illustration request is last
Requests == SubSeq(TextKinds, 1, MaxTextRequests) \o <<"illustration">>

Workers == 1..Len(Requests)
IllustrationWorker == Len(Requests)

\* results of the text backend after get_completion_text has decoded them:
\* "" stands for an empty string, list or object, "v" and "w" for non-empty ones
TextValues == {"", "v", "w"}

\* raw bytes the image backend returns
ImageValues == {"png1", "png2"}

\* line 298 and the cache_key of line 299 / line 300
ImageKey(description) == description \o ". Simple black and white engraving"
CompressedKey(description) == ImageKey(description) \o "compressed4"

\* compress_image, lines 179-185: a function of the bytes
Compress(data) == IF data = "png1" THEN "small1" ELSE "small2"

Keys == {Requests[k] : k \in Workers}
            \cup {ImageKey(d) : d \in TextValues} \cup {CompressedKey(d) : d \in TextValues}

\* line 52: `if cached := get_cache(cache_key)` - the truth value of a Python object
Truthy(value) == value \notin {"None", ""}

FreshWorker == [pc |-> "start", cached |-> "None", out |-> "None", raced |-> FALSE]

CacheStart ==
    /\ cache_db = [k \in Keys |-> "None"]
    /\ th = [t \in Workers |-> FreshWorker]
    /\ run = "first"
    /\ cpc = "requests"
    /\ remote_calls = 0
    /\ illustration_data = "None"
    /\ outputs = [r \in {"first", "second"} |-> <<>>]

CacheInit == CacheStart /\ MergeIdle /\ DispIdle /\ RenderIdle /\ WrapIdle

\* threads inside store_cache / inside get_cache
Storing == {t \in Workers : th[t].pc = "storing"}
Getting == {t \in Workers : th[t].pc = "getting"}

\* thread t enters an operation on the store; an operation that overlaps a
\* store_cache of another thread races with it (shelve has no lock)
Enter(t, pc, conflicting) ==
    [u \in Workers |->
        IF u = t THEN [th[t] EXCEPT !.pc = pc, !.raced = conflicting # {}]
        ELSE IF u \in conflicting THEN [th[u] EXCEPT !.raced = TRUE]
        ELSE th[u]]

\* line 52, get_cache is entered
GetBegin(t) ==
    /\ cpc = "requests"
    /\ UNCHANGED <<mergeVars, dispVars, renderVars, wrapVars>>
    /\ th[t].pc = "start"
    /\ th' = Enter(t, "getting", Storing)
    /\ UNCHANGED <<cache_db, run, cpc, remote_calls, illustration_data, outputs>>

\* where the wrapper goes with what get_cache returned (lines 52-54)
AfterLookup(cached) == IF Truthy(cached) THEN "done" ELSE "calling"

\* line 52-53, get_cache returns; a read that raced with a write may miss
GetEnd(t) ==
    /\ cpc = "requests"
    /\ UNCHANGED <<mergeVars, dispVars, renderVars, wrapVars>>
    /\ th[t].pc = "getting"
    /\ \E cached \in {cache_db[Requests[t]]} \cup (IF th[t].raced THEN {"None"} ELSE {}) :
          th' = [th EXCEPT ![t] = [pc |-> AfterLookup(cached), cached |-> cached,
                                   out |-> IF Truthy(cached) THEN cached ELSE "None",
                                   raced |-> FALSE]]
    /\ UNCHANGED <<cache_db, run, cpc, remote_calls, illustration_data, outputs>>

\* line 54, get_completion_text sends the request and the backend answers;
\* line 55-56, store_cache is entered with the result
CallReturns(t, value) ==
    /\ cpc = "requests"
    /\ UNCHANGED <<mergeVars, dispVars, renderVars, wrapVars>>
    /\ th[t].pc = "calling"
    /\ remote_calls' = remote_calls + 1
    /\ th' = [u \in Workers |->
                IF u = t THEN [Enter(t, "storing", Storing \cup Getting)[t]
                                  EXCEPT !.out = value]
                ELSE Enter(t, "storing", Storing \cup Getting)[u]]
    /\ UNCHANGED <<cache_db, run, cpc, illustration_data, outputs>>

\* line 54, the request fails: the exception leaves the wrapper
CallRaises(t) ==
    /\ cpc = "requests"
    /\ UNCHANGED <<mergeVars, dispVars, renderVars, wrapVars>>
    /\ th[t].pc = "calling"
    /\ remote_calls' = remote_calls + 1
    /\ th' = [th EXCEPT ![t].pc = "raised"]
    /\ UNCHANGED <<cache_db, run, cpc, illustration_data, outputs>>

\* line 36 takes effect and the wrapper returns out (line 57); a write that
\* raced with another operation on the store may be lost
StoreEnd(t) ==
    /\ cpc = "requests"
    /\ UNCHANGED <<mergeVars, dispVars, renderVars, wrapVars>>
    /\ th[t].pc = "storing"
    /\ \/ cache_db' = [cache_db EXCEPT ![Requests[t]] = th[t].out]
       \/ th[t].raced /\ UNCHANGED cache_db
    /\ th' = [th EXCEPT ![t].pc = "done", ![t].raced = FALSE]
    /\ UNCHANGED <<run, cpc, remote_calls, illustration_data, outputs>>

\* line 263 returns or raises, then line 298 reads illustration['image_description']
Join ==
    /\ cpc = "requests"
    /\ UNCHANGED <<mergeVars, dispVars, renderVars, wrapVars>>
    /\ \A t \in Workers : th[t].pc \in {"done", "raised"}
    /\ cpc' = IF \E t \in Workers : th[t].pc = "raised" THEN "raised"
              ELSE IF th[IllustrationWorker].out = "" THEN "raised"   \* KeyError
              ELSE "image"
    /\ UNCHANGED <<cache_db, th, run, remote_calls, illustration_data, outputs>>

\* line 299: get_image through the wrapper, on the chapter's own thread
GetImage ==
    /\ cpc = "image"
    /\ UNCHANGED <<mergeVars, dispVars, renderVars, wrapVars>>
    /\ LET key == ImageKey(th[IllustrationWorker].out)
       IN IF Truthy(cache_db[key])
          THEN /\ illustration_data' = cache_db[key]
               /\ UNCHANGED <<cache_db, remote_calls>>
          ELSE \E data \in ImageValues :
                  /\ illustration_data' = data
                  /\ cache_db' = [cache_db EXCEPT ![key] = data]
                  /\ remote_calls' = remote_calls + 1
    /\ cpc' = "compress"
    /\ UNCHANGED <<th, run, outputs>>

\* the markup a run writes is a function of the five results and of the image
Output(compressed) == <<[t \in Workers |-> th[t].out], compressed>>

\* line 300: compress_image through the wrapper; lines 301-316: the merge
\* steps on the results and the write of the chapter file
CompressAndWrite ==
    /\ cpc = "compress"
    /\ UNCHANGED <<mergeVars, dispVars, renderVars, wrapVars>>
    /\ LET key == CompressedKey(th[IllustrationWorker].out)
       IN IF Truthy(cache_db[key])
          THEN /\ outputs' = [outputs EXCEPT ![run] = Output(cache_db[key])]
               /\ UNCHANGED cache_db
          ELSE /\ outputs' = [outputs EXCEPT ![run] = Output(Compress(illustration_data))]
               /\ cache_db' = [cache_db EXCEPT ![key] = Compress(illustration_data)]
    /\ cpc' = "written"
    /\ UNCHANGED <<th, run, remote_calls, illustration_data>>

\* process_chapter is run again on the same source chapter
SecondRun ==
    /\ cpc \in {"written", "raised"}
    /\ UNCHANGED <<mergeVars, dispVars, renderVars, wrapVars>>
    /\ run = "first"
    /\ run' = "second"
    /\ th' = [t \in Workers |-> FreshWorker]
    /\ cpc' = "requests"
    /\ illustration_data' = "None"
    /\ remote_calls' = 0
    /\ UNCHANGED <<cache_db, outputs>>

CacheNext ==
    \/ \E t \in Workers : GetBegin(t)
    \/ \E t \in Workers : GetEnd(t)
    \/ \E t \in Workers : \E value \in TextValues : CallReturns(t, value)
    \/ \E t \in Workers : CallRaises(t)
    \/ \E t \in Workers : StoreEnd(t)
    \/ Join
    \/ GetImage
    \/ CompressAndWrite
    \/ SecondRun

SpecCache == CacheInit /\ [][CacheNext]_vars

----------------------------------------------------------------------------
\* process_chapter from the requests of line 263 to the write of line 316:
\* the merge above, then the steps that work on the parsed tree (lines
\* 297-314).  The tree of the section is the list of its elements in document
\* order; the results of the requests are the inputs of the step that reads
\* them.  Two specifications run these steps:
\*   SpecChapter - the whole of lines 263-316 on one small chapter
\*   SpecRender  - lines 297-316 on a chapter whose annotation and addition
\*                 lists came back empty, for every shape of the section

\* most p elements a section is drawn with
MaxParagraphs == 3
\* longest generated dialogue list drawn
MaxDialogue == 2

Element(kind, body) == [kind |-> kind, body |-> body]

\* the elements that lines 292-293 appended, read back from the section's
\* content: a footnote aside with its id, or the addition box
RECURSIVE AppendedElements(_)
AppendedElements(tokens) ==
    IF tokens = <<>> THEN <<>>
    ELSE IF Head(tokens) = "<aside"
         THEN <<Element("footnote", SubSeq(tokens, 3, 4))>> \o AppendedElements(Tail(tokens))
    ELSE IF Head(tokens) = "<div-addition"
         THEN <<Element("addition", <<>>)>> \o AppendedElements(Tail(tokens))
    ELSE AppendedElements(Tail(tokens))

\* the tree after lines 291-293: the header, the paragraphs of the source
\* (numbered from 0 in document order), then the appended elements
SectionTree ==
    (IF header THEN <<Element("header", <<>>)>> ELSE <<>>)
        \o [k \in 1..paragraphs |-> Element("p", <<Str(k - 1)>>)]
        \o AppendedElements(section)

\* section('p'): the positions of the p elements, in document order
ParagraphCount(tree) == Cardinality({p \in 1..Len(tree) : tree[p].kind = "p"})
NthParagraph(tree, n) ==
    CHOOSE p \in 1..Len(tree) :
        /\ tree[p].kind = "p"
        /\ Cardinality({q \in 1..(p - 1) : tree[q].kind = "p"}) = n

\* the index of the paragraph before the middle one
MiddleIndexBelow(n) == (n - 1) \div 2

\* line 304: len(section('p'))//2
MiddleIndex(n) == n \div 2

\* PyQuery.after: e becomes the next sibling of the element at position pos
InsertAfter(tree, pos, e) == SubSeq(tree, 1, pos) \o <<e>> \o SubSeq(tree, pos + 1, Len(tree))

\* the illustration result (lines 120-122), fields possibly missing
Illustrations ==
    [image_description : {"d"}, existing_sentence : {"s"}]
        \cup [image_description : {"d"}] \cup [existing_sentence : {"s"}] \cup {EmptyDict}

\* the precis text; message.content may be None
Summaries == {"None", "s"}

\* one entry of the generated dialogue list (lines 107-109): an object with
\* any of the two fields, or something that is not an object
Speakers == {"A", "B"}
DialogueEntries ==
    [speaker : Speakers, line : {"l"}] \cup [speaker : {"A"}] \cup [line : {"l"}]
        \cup {[str |-> "t"]}
Dialogues == SeqsUpTo(DialogueEntries, MaxDialogue)

\* line 312: type(c) is dict and 'speaker' in c and 'line' in c
WellFormed(c) == ~Has(c, "str") /\ Has(c, "speaker") /\ Has(c, "line")

\* the entries kept, last one first
KeptEntriesReversed(commentary) ==
    LET kept == SelectSeq(commentary, WellFormed)
    IN [k \in 1..Len(kept) |-> kept[Len(kept) + 1 - k]]

\* line 312: the list comprehension keeps the well-formed entries in order
KeptEntries(commentary) == SelectSeq(commentary, WellFormed)

\* line 313: one <p><strong class="{speaker}">{speaker}:</strong> {line}</p>
\* per kept entry, joined
RECURSIVE CommentaryParagraphs(_)
CommentaryParagraphs(kept) ==
    IF kept = <<>> THEN <<>>
    ELSE <<"<p>", Head(kept).speaker, Head(kept).line>> \o CommentaryParagraphs(Tail(kept))

\* what a step other than line 316 leaves on disk; with the tree saved
FileAfterStepSaved(file, tree) == tree

\* what a step other than line 316 leaves on disk: no step before the last
\* line calls write_xml
FileAfterStep(file, tree) == file

ChapterStart ==
    /\ orig_xml = <<"a", "b">>
    /\ section_xml = orig_xml
    /\ section_append = <<>>
    /\ footnote_number = 1
    /\ i = -1
    /\ j = 0
    /\ branch = "none"
    /\ section = <<>>
    /\ mpc = "requests"
    /\ paragraphs \in 0..MaxParagraphs
    /\ header \in BOOLEAN
    /\ elements = <<>>
    /\ chapter_file = SourceFile
    /\ file_writes = 0

ChapterInit == ChapterStart /\ DispIdle /\ CacheIdle /\ WrapIdle

\* annotations and additions came back empty: lines 270-289 change nothing
\* and lines 291-293 put the source markup back
RenderStart ==
    /\ orig_xml = <<"a", "b">>
    /\ section_xml = orig_xml
    /\ section_append = <<>>
    /\ footnote_number = 1
    /\ i = -1
    /\ j = 0
    /\ branch = "none"
    /\ section = section_xml
    /\ mpc = "merged"
    /\ paragraphs \in 0..MaxParagraphs
    /\ header \in BOOLEAN
    /\ elements = <<>>
    /\ chapter_file = SourceFile
    /\ file_writes = 0

RenderInit == RenderStart /\ DispIdle /\ CacheIdle /\ WrapIdle

\* line 263: run_threaded returns the five results, or a request raises
RunRequests(ok) ==
    /\ mpc = "requests"
    /\ UNCHANGED <<dispVars, cacheVars, wrapVars>>
    /\ mpc' = IF ok THEN "annotations" ELSE "raised"
    /\ chapter_file' = FileAfterStep(chapter_file, <<>>)
    /\ UNCHANGED <<orig_xml, section_xml, section_append, footnote_number, i, j, branch,
                   section, paragraphs, header, elements, file_writes>>

\* lines 298-305: the image is fetched, compressed and written to its own
\* file, then the illustration box is put after the middle paragraph
IllustrationStep(illustration, image_ok) ==
    /\ mpc = "merged"
    /\ UNCHANGED <<dispVars, cacheVars, wrapVars>>
    /\ UNCHANGED <<orig_xml, section_xml, section_append, footnote_number, i, j, branch,
                   section, paragraphs, header, file_writes>>
    /\ LET tree == SectionTree
           n == ParagraphCount(tree)
       IN IF \/ ~Has(illustration, "image_description")   \* KeyError, line 298
             \/ ~image_ok                                  \* get_image raises, line 299
             \/ n = 0                                      \* IndexError, line 304
             \/ ~Has(illustration, "existing_sentence")    \* KeyError, line 305
          THEN /\ mpc' = "raised"
               /\ elements' = tree
               /\ chapter_file' = FileAfterStep(chapter_file, tree)
          ELSE /\ mpc' = "illustrated"
               /\ elements' = InsertAfter(tree, NthParagraph(tree, MiddleIndex(n)),
                                          Element("illustration", <<>>))
               /\ chapter_file' = FileAfterStep(chapter_file, elements')

\* lines 308-309: the precis box goes after the header, if there is one
PrecisStep(summary) ==
    /\ mpc = "illustrated"
    /\ UNCHANGED <<dispVars, cacheVars, wrapVars>>
    /\ UNCHANGED <<orig_xml, section_xml, section_append, footnote_number, i, j, branch,
                   section, paragraphs, header, file_writes>>
    /\ IF summary = "None"
       THEN \* None.strip raises AttributeError, line 308
            /\ mpc' = "raised"
            /\ UNCHANGED elements
       ELSE /\ mpc' = "summarized"
            /\ elements' =
                  IF \E p \in 1..Len(elements) : elements[p].kind = "header"
                  THEN InsertAfter(elements,
                                   CHOOSE p \in 1..Len(elements) : elements[p].kind = "header",
                                   Element("summary", <<summary>>))
                  ELSE elements
    /\ chapter_file' = FileAfterStep(chapter_file, elements')

\* lines 312-314: the well-formed entries are rendered into one box, which is
\* appended to the section
CommentaryStep(commentary) ==
    /\ mpc = "summarized"
    /\ UNCHANGED <<dispVars, cacheVars, wrapVars>>
    /\ UNCHANGED <<orig_xml, section_xml, section_append, footnote_number, i, j, branch,
                   section, paragraphs, header, file_writes>>
    /\ elements' = Append(elements,
                          Element("commentary", CommentaryParagraphs(KeptEntries(commentary))))
    /\ mpc' = "commented"
    /\ chapter_file' = FileAfterStep(chapter_file, elements')

\* line 316: write_xml(chapter_path, pq)
WriteChapter ==
    /\ mpc = "commented"
    /\ UNCHANGED <<dispVars, cacheVars, wrapVars>>
    /\ chapter_file' = elements
    /\ file_writes' = file_writes + 1
    /\ mpc' = "written"
    /\ UNCHANGED <<orig_xml, section_xml, section_append, footnote_number, i, j, branch,
                   section, paragraphs, header, elements>>

RenderNext ==
    \/ \E illustration \in Illustrations : \E image_ok \in BOOLEAN :
          IllustrationStep(illustration, image_ok)
    \/ \E summary \in Summaries : PrecisStep(summary)
    \/ \E commentary \in Dialogues : CommentaryStep(commentary)
    \/ WriteChapter

ChapterNext ==
    \/ \E ok \in BOOLEAN : RunRequests(ok)
    \/ \E a \in Annotations : AnnotationStep(a)
    \/ AnnotationsEnd
    \/ \E c \in Additions : AdditionStep(c)
    \/ AdditionsEnd
    \/ Commit
    \/ RenderNext

SpecChapter == ChapterInit /\ [][ChapterNext]_vars

SpecRender == RenderInit /\ [][RenderNext]_vars

----------------------------------------------------------------------------
\* The wrapper of lines 49-57 on its own: a decorated function is called
\* several times, one call after the other, with any keyword arguments; the
\* function returns a value or raises.

\* number of calls made
MaxCalls == 3

WrapKeys == {"k1", "k2"}

\* keyword arguments of a call: the prompt, and cache_key absent, empty or a key
Kwargs == [prompt : {"p"}] \cup [prompt : {"p"}, cache_key : {""} \cup WrapKeys]

\* what the wrapped function does with its arguments: a value, or an exception
FuncResults == TextValues \cup {"raise"}

\* line 50: kwargs.pop('cache_key', None)
CacheKeyOf(kwargs) == IF Has(kwargs, "cache_key") THEN kwargs.cache_key ELSE "None"

\* the keyword arguments with cache_key left in
PassedKwargsAll(kwargs) == DOMAIN kwargs

\* line 54: func(*args, **kwargs) after the pop of line 50
PassedKwargs(kwargs) == DOMAIN kwargs \ {"cache_key"}

\* the store if the wrapper recorded a failed call under its key
AfterFailureStored(db, key) == IF Truthy(key) THEN [db EXCEPT ![key] = "error"] ELSE db

\* the store after line 54 raised: lines 55-57 are not reached
AfterFailure(db, key) == db

WrapStart ==
    /\ cache_db = [k \in WrapKeys |-> "None"]
    /\ th = <<>>
    /\ run = "none"
    /\ cpc = "idle"
    /\ remote_calls = 0
    /\ illustration_data = "None"
    /\ outputs = <<>>
    /\ calls = 0
    /\ last = NoCall

WrapInit == WrapStart /\ MergeIdle /\ DispIdle /\ RenderIdle

\* one call wrapper(**kwargs), lines 49-57; result is what func would do
Call(kwargs, result) ==
    /\ calls < MaxCalls
    /\ cpc = "idle"
    /\ UNCHANGED <<mergeVars, dispVars, renderVars>>
    /\ calls' = calls + 1
    /\ LET cache_key == CacheKeyOf(kwargs)
           keyed == Truthy(cache_key)                                \* line 51, line 55
           cached == IF keyed THEN cache_db[cache_key] ELSE "None"   \* line 52
           lookups == IF keyed THEN 1 ELSE 0
           call == [given |-> Has(kwargs, "cache_key"), key |-> cache_key,
                    reads |-> lookups]
       IN IF keyed /\ Truthy(cached)
          THEN \* line 53
               /\ last' = call @@ [outcome |-> "hit", value |-> cached, writes |-> 0,
                                   invoked |-> FALSE, passed |-> {}]
               /\ UNCHANGED cache_db
          ELSE IF result = "raise"
          THEN \* line 54 raises
               /\ last' = call @@ [outcome |-> "raised", value |-> "None", writes |-> 0,
                                   invoked |-> TRUE, passed |-> PassedKwargs(kwargs)]
               /\ cache_db' = AfterFailure(cache_db, cache_key)
          ELSE \* lines 54-57
               /\ last' = call @@ [outcome |-> "returned", value |-> result,
                                   writes |-> lookups,
                                   invoked |-> TRUE, passed |-> PassedKwargs(kwargs)]
               /\ cache_db' = IF keyed THEN [cache_db EXCEPT ![cache_key] = result]
                              ELSE cache_db
    /\ UNCHANGED <<th, run, cpc, remote_calls, illustration_data, outputs>>

WrapNext == \E kwargs \in Kwargs : \E result \in FuncResults : Call(kwargs, result)

SpecWrapper == WrapInit /\ [][WrapNext]_vars

----------------------------------------------------------------------------
\* Properties of the merge (SpecMerge).

\* an iteration that skips its item: nothing of the merge state moves, no error
SkipFrame ==
    /\ section_xml' = section_xml
    /\ section_append' = section_append
    /\ footnote_number' = footnote_number
    /\ mpc' # "raised"

\* (The step formulas below say "every step on an item with P has effect Q" in
\* the equivalent form "the step has effect Q, or it is a step on no item
\* with P".)

\* C3 (as stated): an annotation or addition candidate whose anchor text does
\* not occur verbatim in the markup leaves the markup, the pending-append
\* list and the footnote counter unchanged and raises no error.  The anchor
\* text of an annotation is its `text` field as generated.
C3_AnchorSkipAsStated ==
    [][ SkipFrame \/
        IF mpc = "annotations"
        THEN \A a \in Annotations :
                ~(Has(a, "text") /\ ~Contains(section_xml, a.text) /\ AnnotationStep(a))
        ELSE \A c \in Additions :
                ~(Has(c, "existing_sentence")
                    /\ ~Contains(section_xml, c.existing_sentence) /\ AdditionStep(c))
      ]_vars

\* C3 (amended): an annotation whose `text`, with its trailing periods
\* stripped, does not occur in the current markup, and an addition candidate
\* whose existing_sentence does not occur in the current markup, leaves the
\* markup, the pending-append list and the footnote counter unchanged and
\* raises no error.
C3_AnchorSkipStripped ==
    [][ SkipFrame \/
        IF mpc = "annotations"
        THEN \A a \in Annotations :
                ~(Has(a, "text") /\ ~Contains(section_xml, RStrip(a.text))
                    /\ AnnotationStep(a))
        ELSE \A c \in Additions :
                ~(Has(c, "existing_sentence")
                    /\ ~Contains(section_xml, c.existing_sentence) /\ AdditionStep(c))
      ]_vars

\* an annotation was found, then the next one was not and was skipped
C3_Witness ==
    /\ mpc = "annotations"
    /\ i = 1
    /\ branch = "notfound"
    /\ footnote_number = 2
    /\ Len(section_append) = 1

\* C4: an item whose anchor is not a substring of the ORIGINAL markup is
\* skipped and does not change the markup, also after earlier items have
\* inserted reference markers.
C4_OnlySourceAnchored ==
    [][ section_xml' = section_xml \/
        IF mpc = "annotations"
        THEN \A a \in Annotations :
                ~(Has(a, "text") /\ ~Contains(orig_xml, RStrip(a.text))
                    /\ AnnotationStep(a))
        ELSE \A c \in Additions :
                ~(Has(c, "existing_sentence")
                    /\ ~Contains(orig_xml, c.existing_sentence) /\ AdditionStep(c))
      ]_vars

\* value of a rendered digit
Val(tok) == CHOOSE n \in 0..9 : Str(n) = tok

\* positions of the <sup> of the reference markers in a markup string: the
\* list index that ends the href id stands before it, the number after it
MarkerPositions(xml) == {p \in 2..(Len(xml) - 1) : xml[p] = "^"}

\* C5: the reference markers carry the numbers 1..k, k the number of
\* annotations whose anchor was found, in annotation-list order; an
\* annotation that is not found consumes no number.
C5_NumbersInMarkup ==
    LET ps == MarkerPositions(section_xml)
        k == footnote_number - 1
    IN /\ Cardinality(ps) = k
       /\ {Val(section_xml[p + 1]) : p \in ps} = 1..k
       /\ \A p, q \in ps :
             Val(section_xml[p - 1]) < Val(section_xml[q - 1])
                 <=> Val(section_xml[p + 1]) < Val(section_xml[q + 1])
       /\ mpc # "raised" =>
             Cardinality({m \in 1..Len(section_append) :
                            section_append[m][2] = "<aside"}) = k

C5_FootnoteNumbering ==
    /\ []C5_NumbersInMarkup
    /\ [][ \/ mpc # "annotations"
           \/ /\ \/ footnote_number' = footnote_number
                 \/ \A a \in Annotations :
                       ~(Has(a, "text") /\ ~Contains(section_xml, RStrip(a.text))
                           /\ AnnotationStep(a))
              /\ \/ /\ footnote_number' = footnote_number + 1
                    /\ \E p \in MarkerPositions(section_xml') :
                          /\ section_xml'[p - 1] = Str(i')
                          /\ section_xml'[p + 1] = Str(footnote_number)
                 \/ \A a \in Annotations :
                       ~(Has(a, "text") /\ Contains(section_xml, RStrip(a.text))
                           /\ AnnotationStep(a)) ]_vars

\* the first annotation consumed no number, the second one carries number 1
C5_Witness ==
    /\ i = 1
    /\ branch = "found"
    /\ footnote_number = 2
    /\ \E p \in MarkerPositions(section_xml) :
          section_xml[p - 1] = "1" /\ section_xml[p + 1] = "1"

\* number of sentences the addition step spliced into the markup
AddedSentences(xml) == Cardinality({p \in 1..Len(xml) : xml[p] \in NewSentences})

\* number of explanatory asides in the pending-append list
AddedAsides(app) == Cardinality({m \in 1..Len(app) : app[m][2] = "<div-addition"})

\* C6: the merge applies the first candidate, in list order, whose anchor
\* sentence occurs in the current markup and stops scanning; at most one
\* sentence and one aside are added; nothing is added when none matches.
C6_AtMostOne ==
    /\ AddedSentences(section_xml) <= 1
    /\ AddedAsides(section_append) <= 1
    /\ AddedSentences(section_xml) = AddedAsides(section_append)
    /\ mpc \in {"annotations", "additions"} => AddedSentences(section_xml) = 0

C6_SingleAddition ==
    /\ []C6_AtMostOne
    /\ [][ \/ mpc # "additions"
           \/ \A c \in [existing_sentence : Sentences, new_sentence : NewSentences] :
                 \/ IF Contains(section_xml, c.existing_sentence)
                    THEN /\ mpc' = "commit"
                         /\ section_xml' =
                                ReplaceFirst(section_xml, c.existing_sentence,
                                    c.existing_sentence \o <<" ", c.new_sentence>>)
                         /\ section_append' =
                                Append(section_append, AdditionAside(c.new_sentence))
                    ELSE SkipFrame /\ mpc' = "additions"
                 \/ ~AdditionStep(c) ]_vars

\* two candidates did not match, the third one was applied
C6_Witness ==
    /\ mpc = "commit"
    /\ branch = "found"
    /\ j = 3
    /\ AddedSentences(section_xml) = 1

----------------------------------------------------------------------------
\* Properties of the dispatcher and of process_epub (SpecDispatch).

\* run_threaded has given control back to process_epub
RunThreadedOver == dpc \in {"returned", "raised", "done"}

\* C2: when process_chapter raises for one chapter, every sibling chapter is
\* still processed to completion and its result is obtained by process_epub.
C2_ChapterIsolation ==
    RunThreadedOver =>
        \A k \in Jobs :
            chapters[k] # "fail" =>
                /\ fut[k] = "done"
                /\ k <= Len(chapter_results)
                /\ chapter_results[k] = ProcessChapter(k)

\* C7: run_threaded returns a list as long as the job list whose k-th
\* element is the result of the k-th submitted job, whatever the order in
\* which the workers finish.
C7_OrderPreserved ==
    /\ \A k \in 1..Len(results) : results[k] = ProcessChapter(k)
    /\ dpc = "returned" =>
          /\ Len(chapter_results) = Len(chapters)
          /\ \A k \in Jobs : chapter_results[k] = ProcessChapter(k)

\* two jobs with different results finished in reverse order and were returned
C7_Witness ==
    /\ dpc = "returned"
    /\ finish_order = <<2, 1>>
    /\ chapter_results = <<<<"manifest", 1>>, <<"manifest", 2>>>>

\* C8: a chapter without a section makes no remote call and writes nothing,
\* and process_epub still completes without raising, registering manifest
\* fragments for the annotated chapters only.
C8_SkipIsNotAnError ==
    /\ \A k \in Jobs : chapters[k] = "nosection" => k \notin dispatched \cup written
    /\ (\A k \in Jobs : chapters[k] # "fail") =>
          /\ dpc # "raised"
          /\ dpc = "done" => \A k \in Jobs :
                (chapters[k] = "ok") <=> (\E m \in 1..Len(manifest) : manifest[m] = k)


-----------------------------------------------------------------------------
\* Properties of the cache and of a repeated process_chapter (SpecCache).

\* C1: idempotence of the chapter pipeline.  Whatever the backends returned
\* on a first run that wrote its chapter (empty results included), a second
\* run on the same chapter with the store as the first run left it sends no
\* request to a backend, and the markup it writes is the first run's.
C1_Idempotence ==
    (run = "second" /\ outputs["first"] # <<>>) =>
        /\ remote_calls = 0
        /\ cpc = "written" => outputs["second"] = outputs["first"]

\* C9: cache writers are serialized.  No two threads are inside store_cache at
\* the same time, and no thread is inside store_cache while another is inside
\* get_cache.
C9_WritersSerialized ==
    \A t, u \in Workers :
        t # u => ~(th[t].pc = "storing" /\ th[u].pc \in {"storing", "getting"})

\* C10: cache entry stability.  Once a value is stored under a key (an empty
\* value included), no step replaces it, and every lookup of that key through
\* the wrapper returns it.
C10_EntryStability ==
    [][ /\ \A k \in Keys : cache_db[k] # "None" => cache_db'[k] = cache_db[k]
        /\ \A t \in Workers :
              (th[t].pc = "getting" /\ th'[t].pc # "getting"
                    /\ cache_db[Requests[t]] # "None")
                => (th'[t].pc = "done" /\ th'[t].out = cache_db[Requests[t]])
      ]_vars

-----------------------------------------------------------------------------
\* Further properties of the merge (SpecMerge).

\* C11: the footnote step processes an annotation only if it has both a `text`
\* and an `annotation` field; an entry missing either field, or both, is
\* skipped: no error is raised and the markup, the pending-append list and
\* the footnote counter stay as they were.
C11_MalformedSkipped ==
    [][ mpc = "annotations" =>
          (SkipFrame \/
           \A a \in Annotations :
              ~((~Has(a, "text") \/ ~Has(a, "annotation")) /\ AnnotationStep(a)))
      ]_vars

-----------------------------------------------------------------------------
\* Further properties of the dispatcher (SpecDispatch).

\* the jobs whose function raised
RaisedJobs == {k \in Jobs : fut[k] = "failed"}

\* the job that raised first in time
FirstRaised ==
    LET m == CHOOSE m \in 1..Len(finish_order) :
                /\ finish_order[m] \in RaisedJobs
                /\ \A n \in 1..(m - 1) : finish_order[n] \notin RaisedJobs
    IN finish_order[m]

\* C12: when one or more jobs raise, run_threaded raises to its caller, the
\* error it lets out is the one that was raised first in time, and no job
\* that was started is still running when run_threaded gives control back.
C12_FirstErrorInTime ==
    (RunThreadedOver /\ RaisedJobs # {}) =>
        /\ dpc = "raised"
        /\ exc = FirstRaised
        /\ Running = {}

-----------------------------------------------------------------------------
\* Properties of the inserted markup (SpecMerge).

\* new is old with ins spliced in right after the first occurrence of t, and
\* nothing else changed
SplicedAfterFirst(old, t, ins, new) ==
    /\ Len(new) = Len(old) + Len(ins)
    /\ \E k \in 1..(Len(old) - Len(t) + 1) :
        /\ OccursAt(old, t, k)
        /\ \A m \in 1..(k - 1) : ~OccursAt(old, t, m)
        /\ SubSeq(new, 1, k + Len(t) - 1) = SubSeq(old, 1, k + Len(t) - 1)
        /\ SubSeq(new, k + Len(t), k + Len(t) + Len(ins) - 1) = ins
        /\ SubSeq(new, k + Len(t) + Len(ins), Len(new)) = SubSeq(old, k + Len(t), Len(old))

\* C15: when the anchor of an annotation (or of the chosen addition) occurs
\* once or more in the current markup, the merge inserts exactly one marker
\* (or one new sentence), immediately after the first occurrence, and every
\* other occurrence and all other markup text stay as they were.
C15_FirstOccurrence ==
    [][ IF mpc = "annotations"
        THEN \A a \in Annotations :
                (Has(a, "text") /\ Contains(section_xml, RStrip(a.text)))
                    => \/ SplicedAfterFirst(section_xml, RStrip(a.text),
                                            NoteRef(i', footnote_number), section_xml')
                       \/ ~AnnotationStep(a)
        ELSE \A c \in [existing_sentence : Sentences, new_sentence : NewSentences] :
                Contains(section_xml, c.existing_sentence)
                    => \/ SplicedAfterFirst(section_xml, c.existing_sentence,
                                            <<" ", c.new_sentence>>, section_xml')
                       \/ ~AdditionStep(c)
      ]_vars

\* the anchor a occurred twice; the marker stands after the first occurrence
C15_Witness ==
    /\ orig_xml = <<"a", "a">>
    /\ mpc = "annotations"
    /\ branch = "found"
    /\ section_xml = <<"a">> \o NoteRef(0, 1) \o <<"a">>

\* the href targets of the reference markers in the markup, by position
HrefPositions(xml) == {p \in 1..(Len(xml) - 2) : xml[p] = "#"}
Href(xml, p) == SubSeq(xml, p + 1, p + 2)

\* the footnote asides of the pending-append list and their ids
FootnoteAsides(app) == {m \in 1..Len(app) : app[m][2] = "<aside"}
AsideId(app, m) == SubSeq(app[m], 4, 5)

\* C18: after the footnote step the href target of every inserted reference
\* marker is the id of exactly one appended footnote aside, every footnote
\* aside is the target of exactly one marker, and the ids are pairwise
\* distinct.
C18_RefsMatchAsides ==
    (mpc = "additions" /\ j = 0) =>
        LET hs == HrefPositions(section_xml)
            as == FootnoteAsides(section_append)
        IN /\ \A p \in hs :
                 Cardinality({m \in as : AsideId(section_append, m) = Href(section_xml, p)}) = 1
           /\ \A m \in as :
                 Cardinality({p \in hs : Href(section_xml, p) = AsideId(section_append, m)}) = 1
           /\ \A m, n \in as :
                 m # n => AsideId(section_append, m) # AsideId(section_append, n)

-----------------------------------------------------------------------------
\* Properties of the tree steps (SpecRender).

IllustrationPositions == {p \in 1..Len(elements) : elements[p].kind = "illustration"}

\* C13: when the section has n >= 1 paragraphs at the illustration step,
\* exactly one illustration box is inserted, immediately after the paragraph
\* with zero-based index n // 2, and the boxes added afterwards (precis,
\* commentary) leave it there.
C13_IllustrationPlacement ==
    mpc \in {"illustrated", "summarized", "commented", "written"} =>
        /\ paragraphs >= 1
        /\ Cardinality(IllustrationPositions) = 1
        /\ \A p \in IllustrationPositions :
              /\ p > 1
              /\ elements[p - 1] = Element("p", <<Str(paragraphs \div 2)>>)

\* three paragraphs: the box stands between paragraph 1 and paragraph 2, the
\* commentary has been appended
C13_Witness ==
    /\ mpc = "commented"
    /\ paragraphs = 3
    /\ \E p \in IllustrationPositions :
          /\ elements[p - 1] = Element("p", <<"1">>)
          /\ elements[p + 1] = Element("p", <<"2">>)

\* the paragraphs the commentary box must hold for a dialogue list
RECURSIVE ExpectedParagraphs(_)
ExpectedParagraphs(commentary) ==
    IF commentary = <<>> THEN <<>>
    ELSE LET c == Head(commentary)
         IN (IF {"speaker", "line"} \subseteq DOMAIN c
             THEN <<"<p>", c.speaker, c.line>> ELSE <<>>)
                \o ExpectedParagraphs(Tail(commentary))

CommentaryPositions == {p \in 1..Len(elements) : elements[p].kind = "commentary"}

\* C14: the commentary box holds exactly one paragraph per entry of the
\* dialogue list that has both a speaker and a line, in the list's order, and
\* none for an entry that lacks one of them or is not an object; exactly one
\* box is appended per chapter, also when no entry is well-formed.
C14_CommentaryFiltering ==
    /\ [](mpc \in {"commented", "written"} => Cardinality(CommentaryPositions) = 1)
    /\ [][ mpc = "summarized" =>
             \A commentary \in Dialogues :
                \/ elements' = Append(elements,
                        Element("commentary", ExpectedParagraphs(commentary)))
                \/ ~CommentaryStep(commentary) ]_vars

\* a box with the lines of A and B in that order
C14_Witness ==
    /\ mpc = "commented"
    /\ elements[Len(elements)] = Element("commentary", <<"<p>", "A", "l", "<p>", "B", "l">>)

-----------------------------------------------------------------------------
\* Properties of the whole chapter pipeline (SpecChapter).

\* position of a step in the pipeline
StepRank(pc) ==
    CASE pc = "requests" -> 0 [] pc = "annotations" -> 1 [] pc = "additions" -> 2
      [] pc = "commit" -> 3 [] pc = "merged" -> 4 [] pc = "illustrated" -> 5
      [] pc = "summarized" -> 6 [] pc = "commented" -> 7 [] pc = "written" -> 8
      [] OTHER -> 9

PositionsOf(kind) == {p \in 1..Len(elements) : elements[p].kind = kind}

\* the section once the commentary box is in: the footnote asides stand in
\* the order of their annotations, the addition box follows them, and the
\* commentary box is the last child
C16_FinalSection ==
    mpc \in {"commented", "written"} =>
        LET fs == PositionsOf("footnote")
            ad == PositionsOf("addition")
        IN /\ PositionsOf("commentary") = {Len(elements)}
           /\ Cardinality(fs) = Cardinality(FootnoteAsides(section_append))
           /\ Cardinality(ad) = AddedAsides(section_append)
           /\ \A p, q \in fs :
                 p < q => Val(elements[p].body[2]) < Val(elements[q].body[2])
           /\ \A p \in fs : \A q \in ad : p < q
           /\ \A p, q \in fs \cup ad : \A r \in p..q : r \in fs \cup ad

\* C16: the pipeline runs the footnote step, then the addition step (which
\* searches the markup as the footnote step left it), then the commit of the
\* markup and the pending appends, then illustration, precis and commentary;
\* in the resulting section the footnote asides stand in the order in which
\* their anchors were found, the addition aside follows them, and the single
\* commentary box is the last child.
C16_StepOrder ==
    /\ []C16_FinalSection
    /\ [][ /\ \/ mpc' = mpc
              \/ mpc # "raised" /\ mpc' = "raised"
              \/ StepRank(mpc') = StepRank(mpc) + 1
              \/ mpc = "additions" /\ mpc' = "commit"
           /\ (mpc = "additions" /\ section_xml' # section_xml) =>
                 \E s \in Sentences : \E n \in NewSentences :
                    SplicedAfterFirst(section_xml, s, <<" ", n>>, section_xml')
           /\ mpc' = "merged" =>
                 /\ SubSeq(section', 1, Len(section_xml)) = section_xml
                 /\ \A m \in 1..Len(section_append) : Contains(section', section_append[m])
         ]_vars

\* two footnotes and an addition were merged and the chapter was written
C16_Witness ==
    /\ mpc = "written"
    /\ Cardinality(PositionsOf("footnote")) = 2
    /\ Cardinality(PositionsOf("addition")) = 1
    /\ Len(section_xml) > Len(orig_xml) + 2 * Len(NoteRef(0, 1))

\* C17: process_chapter writes the chapter file at most once per invocation,
\* and only after every step has succeeded; when a request or a step fails,
\* the file on disk is what was read, never a partly merged chapter.
C17_WrittenOnceAtEnd ==
    /\ file_writes <= 1
    /\ mpc # "written" => (chapter_file = SourceFile /\ file_writes = 0)
    /\ mpc = "written" =>
          /\ file_writes = 1
          /\ chapter_file = elements
          /\ PositionsOf("illustration") # {}
          /\ PositionsOf("commentary") # {}

\* the illustration step failed after the merge had changed the markup
C17_Witness ==
    /\ mpc = "raised"
    /\ section # <<>>
    /\ section_xml # orig_xml
    /\ elements # <<>>
    /\ chapter_file = SourceFile

-----------------------------------------------------------------------------
\* Properties of the wrapper (SpecWrapper).

\* a call of the wrapper has just been made
CallStep == calls' # calls

\* C19: when the wrapped function raises, nothing is stored under the call's
\* cache key and no other entry of the store changes, so the next call with
\* the same key invokes the function again instead of returning a stored
\* partial or error value.
C19_FailureLeavesCache ==
    /\ [](last.outcome = "raised" => (last.invoked /\ last.writes = 0))
    /\ [][ (CallStep /\ last'.outcome = "raised") => cache_db' = cache_db ]_vars
    /\ [][ (CallStep /\ last.outcome = "raised" /\ last'.given = last.given
                /\ last'.key = last.key)
              => (last'.invoked /\ last'.outcome # "hit") ]_vars

\* a call with key k1 failed while k2 was stored: k1 is still absent
C19_Witness ==
    /\ last.outcome = "raised"
    /\ last.key = "k1"
    /\ cache_db["k1"] = "None"
    /\ cache_db["k2"] = "v"

\* C20: a call without a cache_key always invokes the wrapped function and
\* neither reads nor writes the store; and the cache_key argument, when one
\* is given, is not among the arguments the wrapped function receives.
C20_UncachedBypass ==
    /\ []((last.outcome # "none" /\ ~last.given) =>
             (last.invoked /\ last.reads = 0 /\ last.writes = 0))
    /\ [](last.invoked => "cache_key" \notin last.passed)
    /\ [][ (CallStep /\ ~last'.given) => cache_db' = cache_db ]_vars

\* a call without cache_key returned while the store held entries
C20_Witness ==
    /\ last.outcome = "returned"
    /\ ~last.given
    /\ last.passed = {"prompt"}
    /\ cache_db["k1"] = "v"

=============================================================================
